---- MODULE Spec2Model ----
(***************************************************************************)
(* Model of the voice-prompt browser client (src/client/main.js): the      *)
(* session state, the startRecording / stopRecording / sendCancel          *)
(* operations, the WebSocket handlers and the phrase reassembler           *)
(* (handleTtsChunk, finalizePhrase, tryPlayAudio, playNext,                *)
(* resetPlayback).  The server is the environment: it consumes the control *)
(* messages the client sends, in order, and emits the messages of          *)
(* src/requirements.md sections 5, 9 and 11.  The WebSocket is a pair of   *)
(* FIFO channels; the model delivers a server message the moment it is     *)
(* emitted and lets the server read the client's messages arbitrarily      *)
(* late, which yields the same client-side traces as delaying both ways.   *)
(*                                                                         *)
(* The capture side is the AudioWorkletProcessor of                         *)
(* src/client/pcm-worklet.js (resample, enqueue, ensureCapacity), with    *)
(* samples and rates as exact fractions.                                   *)
(*                                                                         *)
(* DOM wiring (button enablement, panels, theme, logs) is not modelled:    *)
(* the operations are callable in every state and their own guards decide. *)
(* Variables whose name starts with "h" are history variables: they record *)
(* what happened and are never read by the modelled code.                  *)
(***************************************************************************)
EXTENDS Integers, Sequences, FiniteSets, TLC

\* ------------------------------------------------------------------ bounds
MaxSeq == 2        \* phrase sequence numbers the server uses: 1..MaxSeq
MaxChunks == 2     \* tts_chunk messages per phrase and cycle
MaxFrags == 2      \* llm_token fragments per reply
MaxStarts == 2     \* startRecording invocations that pass the guard
MaxNet == 2        \* control messages in flight to the server
MaxBlock == 5      \* samples in one input block of process
MaxCalls == 3      \* calls of process on one processor
MaxNow == 2        \* ticks of performance.now()
Unit == 4          \* a sample of value v / Unit is written v

\* ------------------------------------------------------- program constants
ConversationCap == 12    \* main.js:110
Pad == 64                \* the base64 padding character '='
Int16Max == 32767        \* pcm-worklet.js:33, 0x7fff
SAMPLE_RATE == 16000     \* main.js:1
CHUNK_MS == 320          \* main.js:2

\* ------------------------------------------------------------- input sets
\* The audio_b64 payload of the n-th chunk the server emits for phrase seq in
\* a cycle, as base64 digit values: one byte, 4 * seq + n, different for
\* every chunk of a cycle (the client never looks into the audio).
Payload(seq, n) == << seq, 16 * n, Pad, Pad >>
\* llm_token fragments, as character sequences
Fragments == { <<"a">>, <<"b">>, <<" ">> }
\* final_transcript texts
Transcripts == { <<>>, <<"h">> }

\* What a processor is constructed with: the sample rate of its audio context
\* and its processorOptions.  Rates and chunkMs are scaled down so that a
\* frame has 1 to 3 samples.
Configs ==
  { [sampleRate |-> 3000, targetSampleRate |-> 1000, chunkMs |-> 2],
    [sampleRate |-> 3000, targetSampleRate |-> 2000, chunkMs |-> 1],
    [sampleRate |-> 2000, targetSampleRate |-> 3000, chunkMs |-> 1],
    [sampleRate |-> 1000, targetSampleRate |-> 2500, chunkMs |-> 1],
    [sampleRate |-> 1000, targetSampleRate |-> 1000, chunkMs |-> 1] }
\* input blocks (inputs[0][0]) of 0..MaxBlock samples, in units of 1 / Unit:
\* a rising and a falling signal that both leave [-1, 1]
Blocks ==
  { [j \in 1..len |-> 3 * j - 7] : len \in 0..MaxBlock } \cup
  { [j \in 1..len |-> 7 - 2 * j] : len \in 0..MaxBlock }

VARIABLES
  wsState,          \* ws: "none" | "connecting" | "open" | "closed"
  recording,        \* recording
  audio,            \* which of mediaStream, audioContext, workletNode are set
  metrics,          \* metrics: key -> timestamp
  phraseBuffers,    \* Map seq -> [chunks, done]
  playbackQueue,    \* playbackQueue
  nextSeqToPlay,    \* nextSeqToPlay
  playing,          \* playing
  current,          \* << >>, or <<item>>: the item loaded in the player
                    \* (player.src) with player.onended attached
  pendingAssistant, \* pendingAssistant
  conversation,     \* conversation
  status,           \* the state last given to setStatus
  pend,             \* startRecording invocations suspended at an await
  c2s,              \* control messages sent, not yet read by the server
  srv,              \* the server's session on the current socket
  hOp,              \* the client handler that ran last ("sendCancel",
                    \* "tts_complete" when it set the status, else "other"),
                    \* and for sendCancel the playback state it started from
  hEmitted,         \* phrases pushed on playbackQueue since the last reset
  hRcvd,            \* tts messages received since the last reset, per seq
  hTok,             \* llm_token history since the last start sent
  hStart,           \* outcome of the latest startRecording call
  hStarts,          \* startRecording invocations that passed the guard
  now,              \* performance.now(), in ticks
  wk,               \* the PCMWorkletProcessor: its fields
  hWk               \* what the processor was given and what it posted

vars == << wsState, recording, audio, metrics, phraseBuffers, playbackQueue,
           nextSeqToPlay, playing, current, pendingAssistant, conversation,
           status, pend, c2s, srv, hOp, hEmitted, hRcvd, hTok, hStart, hStarts,
           now, wk, hWk >>

NoAudio == [mediaStream |-> FALSE, audioContext |-> FALSE, workletNode |-> FALSE]
Seqs == 1..MaxSeq

\* ---------------------------------------------------------- pure helpers
Range(s) == { s[i] : i \in 1..Len(s) }

RECURSIVE Concat(_)
Concat(ss) == IF ss = << >> THEN << >> ELSE Head(ss) \o Concat(Tail(ss))

\* String.prototype.trim over character sequences
RECURSIVE TrimLeft(_)
TrimLeft(t) == IF t # << >> /\ Head(t) = " " THEN TrimLeft(Tail(t)) ELSE t

RECURSIVE TrimRight(_)
TrimRight(t) ==
  IF t # << >> /\ t[Len(t)] = " " THEN TrimRight(SubSeq(t, 1, Len(t) - 1)) ELSE t

trim(t) == TrimRight(TrimLeft(t))

\* atob + charCodeAt: four base64 digits give up to three bytes
DecodeGroup(g) ==
  LET b1 == g[1] * 4 + (g[2] \div 16)
      b2 == (g[2] % 16) * 16 + (IF g[3] = Pad THEN 0 ELSE g[3] \div 4)
      b3 == (IF g[3] = Pad THEN 0 ELSE (g[3] % 4) * 64) + (IF g[4] = Pad THEN 0 ELSE g[4])
  IN  IF g[3] = Pad THEN << b1 >>
      ELSE IF g[4] = Pad THEN << b1, b2 >>
      ELSE << b1, b2, b3 >>

RECURSIVE base64ToBytes(_)
base64ToBytes(b64) ==
  IF Len(b64) < 4 THEN << >>
  ELSE DecodeGroup(SubSeq(b64, 1, 4)) \o base64ToBytes(SubSeq(b64, 5, Len(b64)))

\* ------------------------------------------------- the phrase reassembler
\* The playback state the reassembler functions read and write, as a record.
PB == [ buf |-> phraseBuffers, queue |-> playbackQueue, next |-> nextSeqToPlay,
        playing |-> playing, current |-> current, emitted |-> hEmitted ]

SetPB(st) ==
  /\ phraseBuffers' = st.buf
  /\ playbackQueue' = st.queue
  /\ nextSeqToPlay' = st.next
  /\ playing' = st.playing
  /\ current' = st.current
  /\ hEmitted' = st.emitted

\* new Blob(entry.chunks): the chunks' bytes, concatenated.  late is history:
\* whether a chunk of the blob arrived for a cycle the client had cancelled.
Blob(chunks) ==
  [ bytes |-> Concat([i \in 1..Len(chunks) |-> chunks[i].bytes]),
    late |-> \E i \in 1..Len(chunks) : chunks[i].late ]

\* Map.delete
Without(buf, n) ==
  IF DOMAIN buf \ {n} = {} THEN << >> ELSE [s \in DOMAIN buf \ {n} |-> buf[s]]

\* Releasable without the test of entry.done
Releasable_IgnoreDone(buf, n) == n \in DOMAIN buf

\* the loop condition of tryPlayAudio: has(nextSeqToPlay) and entry.done
Releasable(buf, n) == n \in DOMAIN buf /\ buf[n].done

\* ReleaseNext with unshift in place of push
ReleaseNext_Unshift(st) ==
  [ st EXCEPT !.queue = << Blob(st.buf[st.next].chunks) >> \o st.queue,
              !.buf = Without(st.buf, st.next),
              !.next = st.next + 1,
              !.emitted = Append(st.emitted,
                                 [seq |-> st.next,
                                  chunks |-> st.buf[st.next].chunks,
                                  done |-> st.buf[st.next].done]) ]

\* one iteration of the loop of tryPlayAudio
ReleaseNext(st) ==
  [ st EXCEPT !.queue = Append(st.queue, Blob(st.buf[st.next].chunks)),
              !.buf = Without(st.buf, st.next),
              !.next = st.next + 1,
              !.emitted = Append(st.emitted,
                                 [seq |-> st.next,
                                  chunks |-> st.buf[st.next].chunks,
                                  done |-> st.buf[st.next].done]) ]

RECURSIVE Drain(_)
Drain(st) == IF Releasable(st.buf, st.next) THEN Drain(ReleaseNext(st)) ELSE st

playNext(st) ==
  IF st.queue = << >>
  THEN [st EXCEPT !.playing = FALSE]
  ELSE [st EXCEPT !.playing = TRUE,
                  !.current = << Head(st.queue) >>,
                  !.queue = Tail(st.queue)]

\* tryPlayAudio with playNext called whether playing or not
tryPlayAudio_AlwaysNext(st) == playNext(Drain(st))

\* tryPlayAudio with an if in place of the while
tryPlayAudio_DrainOne(st) ==
  LET d == IF Releasable(st.buf, st.next) THEN ReleaseNext(st) ELSE st
  IN  IF ~d.playing THEN playNext(d) ELSE d

tryPlayAudio(st) ==
  LET d == Drain(st) IN IF ~d.playing THEN playNext(d) ELSE d

handleTtsChunk(st, seq, audio_b64, late) ==
  LET chunk == [bytes |-> base64ToBytes(audio_b64), late |-> late]
      old == IF seq \in DOMAIN st.buf THEN st.buf[seq]
             ELSE [chunks |-> << >>, done |-> FALSE]
      new == [old EXCEPT !.chunks = Append(old.chunks, chunk)]
  IN  [st EXCEPT !.buf = [s \in DOMAIN st.buf \cup {seq} |->
                            IF s = seq THEN new ELSE st.buf[s]]]

finalizePhrase(st, seq) ==
  IF seq \notin DOMAIN st.buf THEN st
  ELSE tryPlayAudio([st EXCEPT !.buf[seq].done = TRUE])

\* resetPlayback without playbackQueue.length = 0
resetPlayback_KeepQueue(st) ==
  [ buf |-> << >>, queue |-> st.queue, next |-> 1, playing |-> FALSE,
    current |-> << >>, emitted |-> << >> ]

\* resetPlayback without nextSeqToPlay = 1
resetPlayback_KeepCursor(st) ==
  [ buf |-> << >>, queue |-> << >>, next |-> st.next, playing |-> FALSE,
    current |-> << >>, emitted |-> << >> ]

resetPlayback(st) ==
  [ buf |-> << >>, queue |-> << >>, next |-> 1, playing |-> FALSE,
    current |-> << >>, emitted |-> << >> ]

\* onended without the call of playNext
onended_NoNext(st) == [st EXCEPT !.playing = FALSE, !.current = << >>]

\* player.onended: playing = false; playNext()
onended(st) == playNext([st EXCEPT !.playing = FALSE, !.current = << >>])

\* ------------------------------------------------------ conversation memory
pushConversation(conv, role, text, late) ==
  IF trim(text) = << >> THEN conv
  ELSE LET c == Append(conv, [role |-> role, text |-> trim(text), late |-> late])
       IN  IF Len(c) > ConversationCap
           THEN SubSeq(c, Len(c) - ConversationCap + 1, Len(c))
           ELSE c

\* appendToken with the operands swapped
appendToken_Prepend(pending, text) == text \o pending

\* pendingAssistant += data.text
appendToken(pending, text) == pending \o text

teardownAudio == NoAudio

\* ------------------------------------------------------------------ metrics
\* stampFirst without the test
stampFirst_Overwrite(m, key, t) ==
  [k \in DOMAIN m \cup {key} |-> IF k = key THEN t ELSE m[k]]

\* if (!metrics.key) metrics.key = performance.now()
stampFirst(m, key, t) ==
  IF key \in DOMAIN m /\ m[key] # 0 THEN m
  ELSE [k \in DOMAIN m \cup {key} |-> IF k = key THEN t ELSE m[k]]

\* metrics = { t0_user_audio_start: performance.now() }
freshMetrics(t) == [k \in {"t0_user_audio_start"} |-> t]

\* ---------------------------------------- the worklet (pcm-worklet.js)
Min(a, b) == IF a <= b THEN a ELSE b
Max(a, b) == IF a >= b THEN a ELSE b
\* the quotient n / d, d > 0, rounded toward zero: the store into an Int16Array
Trunc(n, d) == IF n >= 0 THEN n \div d ELSE -((-n) \div d)

\* Math.floor((targetSampleRate * chunkMs) / 1000)
ChunkSamples(targetSampleRate, chunkMs) == (targetSampleRate * chunkMs) \div 1000

\* the constructor
PCMWorkletProcessor(cfg) ==
  LET chunkSamples == ChunkSamples(cfg.targetSampleRate, cfg.chunkMs) IN
  [ inputSampleRate |-> cfg.sampleRate,
    targetSampleRate |-> cfg.targetSampleRate,
    chunkSamples |-> chunkSamples,
    buffer |-> [j \in 1..(chunkSamples * 4) |-> 0],
    writePos |-> 0 ]

\* SrcPos without the fractional part
SrcPos_NoFraction(p, i) ==
  [ num |-> ((i * p.inputSampleRate) \div p.targetSampleRate) * p.targetSampleRate,
    den |-> p.targetSampleRate ]

\* index = i / ratio, with ratio = targetSampleRate / inputSampleRate, as the
\* fraction num / den
SrcPos(p, i) == [ num |-> i * p.inputSampleRate, den |-> p.targetSampleRate ]

\* the number of output samples: Math.floor(frame.length * ratio)
OutLength_Ceil(p, frame) ==
  (Len(frame) * p.targetSampleRate + p.inputSampleRate - 1) \div p.inputSampleRate

OutLength(p, frame) == (Len(frame) * p.targetSampleRate) \div p.inputSampleRate

\* Neighbour without the cap at the end of the block
Neighbour_NoCap(i0, length) == i0 + 1

\* i1 = Math.min(i0 + 1, frame.length - 1)
Neighbour(i0, length) == Min(i0 + 1, length - 1)

\* frame[index], 0-based: a read outside the block gives undefined
InBlock(frame, index) == 0 <= index /\ index < Len(frame)
ReadSample(frame, index) == IF InBlock(frame, index) THEN frame[index + 1] ELSE 0

\* one iteration of the loop of resample, for output index i: the two
\* neighbours i0 and i1 (0-based), the fraction frac = f / den, and
\* output[i] = clamp(frame[i0] + (frame[i1] - frame[i0]) * frac) * 0x7fff,
\* truncated by the Int16Array.  With an undefined operand the sample is
\* NaN, which the Int16Array stores as 0.
resampleAt(p, frame, i) ==
  LET pos == SrcPos(p, i)
      i0 == pos.num \div pos.den
      i1 == Neighbour(i0, Len(frame))
      f == pos.num - i0 * pos.den
      v0 == ReadSample(frame, i0)
      v1 == ReadSample(frame, i1)
      sample == v0 * pos.den + (v1 - v0) * f
      one == Unit * pos.den
  IN  [ i0 |-> i0, i1 |-> i1, f |-> f, den |-> pos.den,
        out |-> IF InBlock(frame, i0) /\ InBlock(frame, i1)
                THEN Trunc(Max(-one, Min(one, sample)) * Int16Max, one)
                ELSE 0 ]

\* resample(frame): the iterations for i = 0 .. length - 1.  lastSample is a
\* local of the call, assigned before it is read.
resample(p, frame) ==
  [ k \in 1..OutLength(p, frame) |-> resampleAt(p, frame, k - 1) ]

Outputs(trace) == [ k \in 1..Len(trace) |-> trace[k].out ]

\* ensureCapacity without the copy of buffer[0..writePos)
ensureCapacity_NoCopy(p, additional) ==
  IF p.writePos + additional <= Len(p.buffer) THEN p
  ELSE [ p EXCEPT !.buffer =
           [ j \in 1..((Len(p.buffer) + additional) * 2) |-> 0 ] ]

ensureCapacity(p, additional) ==
  IF p.writePos + additional <= Len(p.buffer) THEN p
  ELSE [ p EXCEPT !.buffer =
           [ j \in 1..((Len(p.buffer) + additional) * 2) |->
               IF j <= p.writePos THEN p.buffer[j] ELSE 0 ] ]

\* TypedArray.prototype.set(samples, offset)
setAt(buf, samples, offset) ==
  [ j \in 1..Len(buf) |->
      IF offset < j /\ j <= offset + Len(samples) THEN samples[j - offset]
      ELSE buf[j] ]

\* EmitFrame with writePos = 0 afterwards
EmitFrame_DropRest(st) ==
  LET p == st.p
      chunk == SubSeq(p.buffer, 1, p.chunkSamples)
      remainder == SubSeq(p.buffer, p.chunkSamples + 1, p.writePos)
  IN  [ p |-> [ p EXCEPT !.buffer = setAt(p.buffer, remainder, 0),
                         !.writePos = 0 ],
        posted |-> Append(st.posted, chunk) ]

\* EmitFrame with writePos lowered by one sample too many
EmitFrame_StepOver(st) ==
  LET p == st.p
      chunk == SubSeq(p.buffer, 1, p.chunkSamples)
      remainder == SubSeq(p.buffer, p.chunkSamples + 1, p.writePos)
  IN  [ p |-> [ p EXCEPT !.buffer = setAt(p.buffer, remainder, 0),
                         !.writePos = Max(0, p.writePos - p.chunkSamples - 1) ],
        posted |-> Append(st.posted, chunk) ]

\* EmitFrame without the move of the remainder to the head of the buffer
EmitFrame_NoCompact(st) ==
  LET p == st.p
      chunk == SubSeq(p.buffer, 1, p.chunkSamples)
  IN  [ p |-> [ p EXCEPT !.writePos = p.writePos - p.chunkSamples ],
        posted |-> Append(st.posted, chunk) ]

\* one iteration of the loop of enqueue: a frame is sliced off, the remainder
\* moved to the head of the buffer, and the frame posted
EmitFrame(st) ==
  LET p == st.p
      chunk == SubSeq(p.buffer, 1, p.chunkSamples)
      remainder == SubSeq(p.buffer, p.chunkSamples + 1, p.writePos)
  IN  [ p |-> [ p EXCEPT !.buffer = setAt(p.buffer, remainder, 0),
                         !.writePos = p.writePos - p.chunkSamples ],
        posted |-> Append(st.posted, chunk) ]

RECURSIVE EmitLoop(_)
EmitLoop(st) ==
  IF st.p.writePos >= st.p.chunkSamples THEN EmitLoop(EmitFrame(st)) ELSE st

\* enqueue with an if in place of the while
enqueue_OneFrame(p, samples) ==
  LET q == ensureCapacity(p, Len(samples))
      r == [ q EXCEPT !.buffer = setAt(q.buffer, samples, q.writePos),
                      !.writePos = q.writePos + Len(samples) ]
      st == [ p |-> r, posted |-> << >> ]
  IN  IF r.writePos >= r.chunkSamples THEN EmitFrame(st) ELSE st

\* enqueue(samples): the processor afterwards and the frames posted
enqueue(p, samples) ==
  LET q == ensureCapacity(p, Len(samples))
      r == [ q EXCEPT !.buffer = setAt(q.buffer, samples, q.writePos),
                      !.writePos = q.writePos + Len(samples) ]
  IN  EmitLoop([ p |-> r, posted |-> << >> ])

\* history of a processor: the blocks given to process, the samples given to
\* enqueue, the frames posted, and of the latest call the iterations of
\* resample, the processor before enqueue and the frames it posted
NoHistory ==
  [ calls |-> 0, blocks |-> << >>, enq |-> << >>, posted |-> << >>,
    trace |-> << >>, before |-> << >>, frames |-> << >> ]

\* --------------------------------------------------------------- the server
\* A fresh server session / reply cycle: nothing emitted yet.
NoPhrases == [s \in Seqs |-> [n |-> 0, done |-> FALSE]]
SrvSession(state) ==
  [ state |-> state, frags |-> 0, tokDone |-> FALSE, ph |-> NoPhrases ]

\* When the server may emit a message of the given type (for phrase seq), and
\* its session afterwards.  A reply cycle starts with the final transcript
\* (end of speech while Capturing, or a stop); its fragments end with the
\* terminal marker; each phrase gets at most MaxChunks chunks and then its
\* done marker (none at all when the synthesis failed); tts_complete follows
\* once the token stream has ended and the phrases dispatched, 1..k, are done.
SrvAllDone ==
  /\ srv.tokDone
  /\ \E k \in 0..MaxSeq :
       \A s \in Seqs : IF s <= k THEN srv.ph[s].done
                       ELSE srv.ph[s].n = 0 /\ ~srv.ph[s].done

SrvCan(type, seq) ==
  CASE type = "partial_transcript" -> srv.state = "Capturing"
    [] type = "final_transcript" -> srv.state \in {"Capturing", "Finalizing"}
    [] type = "llm_token" ->
         srv.state = "Responding" /\ ~srv.tokDone /\ srv.frags < MaxFrags
    [] type = "llm_token_done" -> srv.state = "Responding" /\ ~srv.tokDone
    [] type = "tts_chunk" ->
         srv.state = "Responding" /\ ~srv.ph[seq].done /\ srv.ph[seq].n < MaxChunks
    [] type = "tts_phrase_done" -> srv.state = "Responding" /\ ~srv.ph[seq].done
    [] type = "tts_complete" -> srv.state = "Responding" /\ SrvAllDone

SrvAfter(type, seq) ==
  CASE type = "partial_transcript" -> srv
    [] type = "final_transcript" -> SrvSession("Responding")
    [] type = "llm_token" -> [srv EXCEPT !.frags = @ + 1]
    [] type = "llm_token_done" -> [srv EXCEPT !.tokDone = TRUE]
    [] type = "tts_chunk" -> [srv EXCEPT !.ph[seq].n = @ + 1]
    [] type = "tts_phrase_done" -> [srv EXCEPT !.ph[seq].done = TRUE]
    [] type = "tts_complete" -> SrvSession("Idle")

\* the control message at the head of the channel, read by the server: start
\* is valid only in Idle, stop only in Capturing; cancel aborts the utterance
\* or the reply cycle; anything else is dropped
SrvAfterRead(msg) ==
  CASE msg = "start" /\ srv.state = "Idle" -> SrvSession("Capturing")
    [] msg = "stop" /\ srv.state = "Capturing" -> SrvSession("Finalizing")
    [] msg = "cancel" /\ srv.state # "None" -> SrvSession("Idle")
    [] OTHER -> srv

\* A message the server emits while a cancel of the client is still on its
\* way belongs to a cycle the client has cancelled: a late arrival.
Late == "cancel" \in Range(c2s)

\* ws.send(JSON control message): queued when OPEN, dropped when CLOSED, and
\* an InvalidStateError (nothing sent) while CONNECTING.
Send(q, state, msg) == IF state = "open" THEN Append(q, msg) ELSE q
CanSend == wsState = "open" => Len(c2s) < MaxNet

Did(op) ==
  [ op |-> op,
    held |-> op = "sendCancel" /\ phraseBuffers # << >>,
    queued |-> op = "sendCancel" /\ playbackQueue # << >>,
    playing |-> op = "sendCancel" /\ playing ]

\* per seq: the payloads received before the done marker, whether the marker
\* came, its rank among the markers received, and whether anything for the
\* seq came after it
NoRcvd == [s \in Seqs |-> [pre |-> << >>, done |-> FALSE, rank |-> 0, post |-> FALSE]]
RcvdDone(r) == Cardinality({s \in Seqs : r[s].done})
NoTok == [frags |-> << >>, late |-> FALSE, ended |-> FALSE]

Init ==
  /\ wsState = "none"
  /\ recording = FALSE
  /\ audio = NoAudio
  /\ metrics = << >>
  /\ phraseBuffers = << >>
  /\ playbackQueue = << >>
  /\ nextSeqToPlay = 1
  /\ playing = FALSE
  /\ current = << >>
  /\ pendingAssistant = << >>
  /\ conversation = << >>
  /\ status = "idle"
  /\ pend = [orph |-> 0, orphOpen |-> 0, gum |-> 0, mod |-> 0]
  /\ c2s = << >>
  /\ srv = SrvSession("None")
  /\ hOp = [op |-> "other", held |-> FALSE, queued |-> FALSE, playing |-> FALSE]
  /\ hEmitted = << >>
  /\ hRcvd = NoRcvd
  /\ hTok = NoTok
  /\ hStart = [result |-> "none", afterCancel |-> FALSE]
  /\ hStarts = 0
  /\ now = 1
  /\ wk = << >>
  /\ hWk = NoHistory

\* ------------------------------------------------------ client operations
\* startRecording up to its first suspension: the guard, ensureWebSocket
\* (a new socket unless the current one is OPEN) and the call of
\* getUserMedia.  A socket replaced while CONNECTING stays alive with its
\* handlers and its waiting invocation: an orphan.
StartRecordingIgnored ==
  /\ recording
  /\ hStart' = [result |-> "ignored", afterCancel |-> hOp.op = "sendCancel"]
  /\ hOp' = Did("other")
  /\ UNCHANGED << wsState, recording, audio, metrics, phraseBuffers,
                  playbackQueue, nextSeqToPlay, playing, current,
                  pendingAssistant, conversation, status, pend, c2s, srv,
                  hEmitted, hRcvd, hTok, hStarts >>
  /\ UNCHANGED << now, wk, hWk >>

StartRecordingCall ==
  /\ ~recording
  /\ hStarts < MaxStarts
  /\ hStarts' = hStarts + 1
  /\ hStart' = [result |-> "accepted", afterCancel |-> hOp.op = "sendCancel"]
  /\ hOp' = Did("other")
  /\ IF wsState = "open"
     THEN /\ pend' = [pend EXCEPT !.gum = @ + 1]
          /\ UNCHANGED << wsState, c2s, srv >>
     ELSE /\ wsState' = "connecting"
          /\ pend' = IF wsState = "connecting"
                     THEN [pend EXCEPT !.orph = @ + 1] ELSE pend
          /\ c2s' = << >>
          /\ srv' = SrvSession("None")
  /\ UNCHANGED << recording, audio, metrics, phraseBuffers, playbackQueue,
                  nextSeqToPlay, playing, current, pendingAssistant,
                  conversation, status, hEmitted, hRcvd, hTok >>
  /\ UNCHANGED << now, wk, hWk >>

\* the open event of the current socket: resolves ensureWebSocket, and the
\* invocation goes on to getUserMedia
WsOpen ==
  /\ wsState = "connecting"
  /\ wsState' = "open"
  /\ srv' = SrvSession("Idle")
  /\ pend' = [pend EXCEPT !.gum = @ + 1]
  /\ hOp' = Did("other")
  /\ UNCHANGED << recording, audio, metrics, phraseBuffers, playbackQueue,
                  nextSeqToPlay, playing, current, pendingAssistant,
                  conversation, status, c2s, hEmitted, hRcvd, hTok, hStart,
                  hStarts >>
  /\ UNCHANGED << now, wk, hWk >>

\* getUserMedia resolves: mediaStream and audioContext are assigned, and
\* setupAudio waits for addModule and resume
GumResolve ==
  /\ pend.gum > 0
  /\ pend' = [pend EXCEPT !.gum = @ - 1, !.mod = @ + 1]
  /\ audio' = [audio EXCEPT !.mediaStream = TRUE, !.audioContext = TRUE]
  /\ hOp' = Did("other")
  /\ UNCHANGED << wsState, recording, metrics, phraseBuffers, playbackQueue,
                  nextSeqToPlay, playing, current, pendingAssistant,
                  conversation, status, c2s, srv, hEmitted, hRcvd, hTok,
                  hStart, hStarts >>
  /\ UNCHANGED << now, wk, hWk >>

\* getUserMedia rejects (no microphone, permission denied): the invocation
\* ends with the exception
GumReject ==
  /\ pend.gum > 0
  /\ pend' = [pend EXCEPT !.gum = @ - 1]
  /\ hOp' = Did("other")
  /\ UNCHANGED << wsState, recording, audio, metrics, phraseBuffers,
                  playbackQueue, nextSeqToPlay, playing, current,
                  pendingAssistant, conversation, status, c2s, srv, hEmitted,
                  hRcvd, hTok, hStart, hStarts >>
  /\ UNCHANGED << now, wk, hWk >>

\* addModule and resume have resolved: the rest of setupAudio and of
\* startRecording run to the end
StartRecordingFinish ==
  /\ pend.mod > 0
  /\ pend' = [pend EXCEPT !.mod = @ - 1]
  /\ audio' = [audio EXCEPT !.workletNode = TRUE]
  /\ recording' = TRUE
  /\ SetPB(resetPlayback(PB))
  /\ hRcvd' = NoRcvd
  /\ metrics' = freshMetrics(now)
  /\ pendingAssistant' = << >>
  /\ hTok' = NoTok
  /\ status' = "recording"
  /\ CanSend
  /\ c2s' = Send(c2s, wsState, "start")
  /\ hOp' = Did("other")
  /\ UNCHANGED << wsState, conversation, srv, hStart, hStarts >>
  /\ UNCHANGED << now, wk, hWk >>

stopRecording ==
  /\ recording
  /\ recording' = FALSE
  /\ audio' = teardownAudio
  /\ CanSend
  /\ c2s' = Send(c2s, wsState, "stop")
  /\ hOp' = Did("other")
  /\ UNCHANGED << wsState, metrics, phraseBuffers, playbackQueue,
                  nextSeqToPlay, playing, current, pendingAssistant,
                  conversation, status, pend, srv, hEmitted, hRcvd, hTok,
                  hStart, hStarts >>
  /\ UNCHANGED << now, wk, hWk >>

sendCancel ==
  /\ wsState = "open"
  /\ Len(c2s) < MaxNet
  /\ c2s' = Send(c2s, wsState, "cancel")
  /\ SetPB(resetPlayback(PB))
  /\ hRcvd' = NoRcvd
  /\ hTok' = [hTok EXCEPT !.late = @ \/ pendingAssistant # << >>]
  /\ status' = "idle"
  /\ hOp' = Did("sendCancel")
  /\ UNCHANGED << wsState, recording, audio, metrics, pendingAssistant,
                  conversation, pend, srv, hStart, hStarts >>
  /\ UNCHANGED << now, wk, hWk >>

\* the click handler of clearMetricsBtn
clearMetrics ==
  /\ metrics' = << >>
  /\ hOp' = Did("other")
  /\ UNCHANGED << wsState, recording, audio, phraseBuffers, playbackQueue,
                  nextSeqToPlay, playing, current, pendingAssistant,
                  conversation, status, pend, c2s, srv, hEmitted, hRcvd, hTok,
                  hStart, hStarts >>
  /\ UNCHANGED << now, wk, hWk >>

\* ws.onclose, as a state change of the globals
onclose ==
  /\ recording' = FALSE
  /\ audio' = teardownAudio
  /\ SetPB(resetPlayback(PB))
  /\ hRcvd' = NoRcvd
  /\ status' = "idle"
  /\ hOp' = Did("other")

\* the current socket closes (or fails to connect)
WsClose ==
  /\ wsState \in {"connecting", "open"}
  /\ wsState' = "closed"
  /\ c2s' = << >>
  /\ srv' = SrvSession("None")
  /\ onclose
  /\ UNCHANGED << metrics, pendingAssistant, conversation, pend, hTok, hStart,
                  hStarts >>
  /\ UNCHANGED << now, wk, hWk >>

\* an orphan socket opens: its invocation goes on to getUserMedia
OrphanOpen ==
  /\ pend.orph > 0
  /\ pend' = [pend EXCEPT !.orph = @ - 1, !.orphOpen = @ + 1, !.gum = @ + 1]
  /\ hOp' = Did("other")
  /\ UNCHANGED << wsState, recording, audio, metrics, phraseBuffers,
                  playbackQueue, nextSeqToPlay, playing, current,
                  pendingAssistant, conversation, status, c2s, srv, hEmitted,
                  hRcvd, hTok, hStart, hStarts >>
  /\ UNCHANGED << now, wk, hWk >>

\* an orphan socket closes: its onclose handler acts on the same globals
OrphanClose ==
  /\ \/ /\ pend.orph > 0
        /\ pend' = [pend EXCEPT !.orph = @ - 1]
     \/ /\ pend.orphOpen > 0
        /\ pend' = [pend EXCEPT !.orphOpen = @ - 1]
  /\ onclose
  /\ UNCHANGED << wsState, metrics, pendingAssistant, conversation, c2s, srv,
                  hTok, hStart, hStarts >>
  /\ UNCHANGED << now, wk, hWk >>

\* workletNode.port.onmessage: a frame posted by the processor arrives.  The
\* handler is installed by setupAudio and removed by teardownAudio; it sends
\* the frame when recording is set and the socket is OPEN.
WorkletFrame ==
  /\ audio.workletNode
  /\ IF recording /\ wsState = "open"
     THEN /\ Len(c2s) < MaxNet
          /\ c2s' = Append(c2s, "audio")
     ELSE UNCHANGED c2s
  /\ UNCHANGED << wsState, recording, audio, metrics, phraseBuffers,
                  playbackQueue, nextSeqToPlay, playing, current,
                  pendingAssistant, conversation, status, pend, srv, hOp,
                  hEmitted, hRcvd, hTok, hStart, hStarts >>
  /\ UNCHANGED << now, wk, hWk >>

\* the ended event of the player
PlayerEnded ==
  /\ current # << >>
  /\ SetPB(onended(PB))
  /\ hOp' = Did("other")
  /\ UNCHANGED << wsState, recording, audio, metrics, pendingAssistant,
                  conversation, status, pend, c2s, srv, hRcvd, hTok, hStart,
                  hStarts >>
  /\ UNCHANGED << now, wk, hWk >>

\* ------------------------------------------- the server reads the channel
SrvRead ==
  /\ c2s # << >>
  /\ c2s' = Tail(c2s)
  /\ srv' = SrvAfterRead(Head(c2s))
  /\ UNCHANGED << wsState, recording, audio, metrics, phraseBuffers,
                  playbackQueue, nextSeqToPlay, playing, current,
                  pendingAssistant, conversation, status, pend, hOp, hEmitted,
                  hRcvd, hTok, hStart, hStarts >>
  /\ UNCHANGED << now, wk, hWk >>

\* ------------------------------------- handleServerMessage, case by case
\* Each action is the server emitting one message and ws.onmessage handling
\* it.
PartialTranscript ==
  /\ SrvCan("partial_transcript", 0)
  /\ metrics' = stampFirst(metrics, "t1_first_partial", now)
  /\ hOp' = Did("other")
  /\ UNCHANGED << wsState, recording, audio, phraseBuffers, playbackQueue,
                  nextSeqToPlay, playing, current, pendingAssistant,
                  conversation, status, pend, c2s, srv, hEmitted, hRcvd, hTok,
                  hStart, hStarts >>
  /\ UNCHANGED << now, wk, hWk >>

FinalTranscript(text) ==
  /\ SrvCan("final_transcript", 0)
  /\ srv' = SrvAfter("final_transcript", 0)
  /\ metrics' = stampFirst(metrics, "t2_final_transcript", now)
  /\ conversation' = pushConversation(conversation, "User", text, FALSE)
  /\ status' = "responding"
  /\ hOp' = Did("other")
  /\ UNCHANGED << wsState, recording, audio, phraseBuffers, playbackQueue,
                  nextSeqToPlay, playing, current, pendingAssistant, pend,
                  c2s, hEmitted, hRcvd, hTok, hStart, hStarts >>
  /\ UNCHANGED << now, wk, hWk >>

LlmToken(text) ==
  /\ SrvCan("llm_token", 0)
  /\ srv' = SrvAfter("llm_token", 0)
  /\ pendingAssistant' = appendToken(pendingAssistant, text)
  /\ metrics' = stampFirst(metrics, "t3_first_llm_token", now)
  /\ hTok' = [hTok EXCEPT !.frags = Append(@, text), !.late = @ \/ Late]
  /\ hOp' = Did("other")
  /\ UNCHANGED << wsState, recording, audio, phraseBuffers, playbackQueue,
                  nextSeqToPlay, playing, current, conversation, status, pend,
                  c2s, hEmitted, hRcvd, hStart, hStarts >>
  /\ UNCHANGED << now, wk, hWk >>

LlmTokenDone ==
  /\ SrvCan("llm_token_done", 0)
  /\ srv' = SrvAfter("llm_token_done", 0)
  /\ IF pendingAssistant # << >>
     THEN /\ conversation' = pushConversation(conversation, "Assistant",
                                              pendingAssistant, hTok.late \/ Late)
          /\ pendingAssistant' = << >>
     ELSE UNCHANGED << conversation, pendingAssistant >>
  /\ hTok' = [frags |-> << >>, late |-> FALSE, ended |-> TRUE]
  /\ hOp' = Did("other")
  /\ UNCHANGED << wsState, recording, audio, metrics, phraseBuffers,
                  playbackQueue, nextSeqToPlay, playing, current, status, pend,
                  c2s, hEmitted, hRcvd, hStart, hStarts >>
  /\ UNCHANGED << now, wk, hWk >>

TtsChunk(seq) ==
  /\ SrvCan("tts_chunk", seq)
  /\ srv' = SrvAfter("tts_chunk", seq)
  /\ SetPB(handleTtsChunk(PB, seq, Payload(seq, srv.ph[seq].n + 1), Late))
  /\ metrics' = stampFirst(metrics, "t4_first_tts_audio", now)
  /\ hRcvd' = [hRcvd EXCEPT ![seq] =
                 IF @.done THEN [@ EXCEPT !.post = TRUE]
                 ELSE [@ EXCEPT !.pre = Append(@, Payload(seq, srv.ph[seq].n + 1))]]
  /\ hOp' = Did("other")
  /\ UNCHANGED << wsState, recording, audio, pendingAssistant, conversation,
                  status, pend, c2s, hTok, hStart, hStarts >>
  /\ UNCHANGED << now, wk, hWk >>

TtsPhraseDone(seq) ==
  /\ SrvCan("tts_phrase_done", seq)
  /\ srv' = SrvAfter("tts_phrase_done", seq)
  /\ SetPB(finalizePhrase(PB, seq))
  /\ hRcvd' = [hRcvd EXCEPT ![seq] =
                 IF @.done THEN [@ EXCEPT !.post = TRUE]
                 ELSE [@ EXCEPT !.done = TRUE, !.rank = RcvdDone(hRcvd) + 1]]
  /\ hOp' = Did("other")
  /\ UNCHANGED << wsState, recording, audio, metrics, pendingAssistant,
                  conversation, status, pend, c2s, hTok, hStart, hStarts >>
  /\ UNCHANGED << now, wk, hWk >>

TtsComplete ==
  /\ SrvCan("tts_complete", 0)
  /\ srv' = SrvAfter("tts_complete", 0)
  /\ IF ~recording
     THEN /\ SetPB(tryPlayAudio(PB))
          /\ status' = "idle"
          /\ hOp' = Did("tts_complete")
     ELSE /\ UNCHANGED << phraseBuffers, playbackQueue, nextSeqToPlay, playing,
                          current, hEmitted, status >>
          /\ hOp' = Did("other")
  /\ UNCHANGED << wsState, recording, audio, metrics, pendingAssistant,
                  conversation, pend, c2s, hRcvd, hTok, hStart, hStarts >>
  /\ UNCHANGED << now, wk, hWk >>

\* ------------------------------------------------- the clock, the worklet
clientVars ==
  << wsState, recording, audio, metrics, phraseBuffers, playbackQueue,
     nextSeqToPlay, playing, current, pendingAssistant, conversation, status,
     pend, c2s, srv, hOp, hEmitted, hRcvd, hTok, hStart, hStarts >>

\* time passes
Tick ==
  /\ now < MaxNow
  /\ now' = now + 1
  /\ UNCHANGED << clientVars, wk, hWk >>

\* new AudioWorkletNode(audioContext, "pcm-processor", options): the
\* processor is constructed in the audio thread
NewProcessor(cfg) ==
  /\ wk = << >>
  /\ wk' = << PCMWorkletProcessor(cfg) >>
  /\ hWk' = NoHistory
  /\ UNCHANGED << clientVars, now >>

\* process(inputs) without an input, or without a channel
processNoInput ==
  /\ wk # << >>
  /\ hWk.calls < MaxCalls
  /\ hWk' = [hWk EXCEPT !.calls = @ + 1]
  /\ UNCHANGED << clientVars, now, wk >>

\* process(inputs) with the block channel = inputs[0][0]
process(channel) ==
  /\ wk # << >>
  /\ hWk.calls < MaxCalls
  /\ LET trace == resample(wk[1], channel)
         r == enqueue(wk[1], Outputs(trace))
     IN  /\ wk' = << r.p >>
         /\ hWk' = [ calls |-> hWk.calls + 1,
                     blocks |-> Append(hWk.blocks, channel),
                     enq |-> hWk.enq \o Outputs(trace),
                     posted |-> hWk.posted \o r.posted,
                     trace |-> trace,
                     before |-> wk,
                     frames |-> r.posted ]
  /\ UNCHANGED << clientVars, now >>

Next ==
  \/ Tick
  \/ \E cfg \in Configs : NewProcessor(cfg)
  \/ processNoInput
  \/ \E channel \in Blocks : process(channel)
  \/ StartRecordingIgnored
  \/ StartRecordingCall
  \/ WsOpen
  \/ GumResolve
  \/ GumReject
  \/ StartRecordingFinish
  \/ stopRecording
  \/ sendCancel
  \/ clearMetrics
  \/ WsClose
  \/ OrphanOpen
  \/ OrphanClose
  \/ WorkletFrame
  \/ PlayerEnded
  \/ SrvRead
  \/ PartialTranscript
  \/ \E text \in Transcripts : FinalTranscript(text)
  \/ \E text \in Fragments : LlmToken(text)
  \/ LlmTokenDone
  \/ \E seq \in Seqs : TtsChunk(seq)
  \/ \E seq \in Seqs : TtsPhraseDone(seq)
  \/ TtsComplete

Spec == Init /\ [][Next]_vars

\* The reassembler under the session's life cycle: every reply is empty (the
\* terminal marker comes without fragments), so that the token text does not
\* multiply the playback states.
NextPlayback ==
  \/ StartRecordingCall
  \/ WsOpen
  \/ GumResolve
  \/ StartRecordingFinish
  \/ stopRecording
  \/ sendCancel
  \/ WsClose
  \/ PlayerEnded
  \/ SrvRead
  \/ FinalTranscript(<<"h">>)
  \/ LlmTokenDone
  \/ \E seq \in Seqs : TtsChunk(seq)
  \/ \E seq \in Seqs : TtsPhraseDone(seq)
  \/ TtsComplete

SpecPlayback == Init /\ [][NextPlayback]_vars

\* The token stream and the conversation under the session's life cycle:
\* no phrase is synthesized, so that the playback state stays empty.
NextTokens ==
  \/ StartRecordingCall
  \/ WsOpen
  \/ GumResolve
  \/ StartRecordingFinish
  \/ stopRecording
  \/ sendCancel
  \/ WsClose
  \/ SrvRead
  \/ \E text \in Transcripts : FinalTranscript(text)
  \/ \E text \in Fragments : LlmToken(text)
  \/ LlmTokenDone
  \/ TtsComplete

SpecTokens == Init /\ [][NextTokens]_vars

\* The session's life cycle alone: every operation of the client, the orphan
\* sockets, and a server whose replies are empty.
NextLifecycle ==
  \/ StartRecordingIgnored
  \/ StartRecordingCall
  \/ WsOpen
  \/ GumResolve
  \/ GumReject
  \/ StartRecordingFinish
  \/ stopRecording
  \/ sendCancel
  \/ clearMetrics
  \/ WsClose
  \/ OrphanOpen
  \/ OrphanClose
  \/ SrvRead
  \/ PartialTranscript
  \/ FinalTranscript(<<"h">>)
  \/ LlmTokenDone
  \/ TtsComplete

SpecLifecycle == Init /\ [][NextLifecycle]_vars

\* The processor alone: one is constructed, and process is called with and
\* without input.
NextWorklet ==
  \/ \E cfg \in Configs : NewProcessor(cfg)
  \/ processNoInput
  \/ \E channel \in Blocks : process(channel)

SpecWorklet == Init /\ [][NextWorklet]_vars

\* The metrics under the session's life cycle, with time passing: the four
\* kinds of first events, in utterances that end by a stop, a cancel, a close
\* or the next start (no reply runs to its completion).
NextMetrics ==
  \/ Tick
  \/ StartRecordingCall
  \/ WsOpen
  \/ GumResolve
  \/ StartRecordingFinish
  \/ stopRecording
  \/ sendCancel
  \/ clearMetrics
  \/ WsClose
  \/ SrvRead
  \/ PartialTranscript
  \/ FinalTranscript(<<"h">>)
  \/ LlmToken(<<"a">>)
  \/ TtsChunk(1)

SpecMetrics == Init /\ [][NextMetrics]_vars

\* The capture path: the life cycle with the frames of the worklet arriving
\* at the main thread.
NextCapture ==
  \/ StartRecordingIgnored
  \/ StartRecordingCall
  \/ WsOpen
  \/ GumResolve
  \/ GumReject
  \/ StartRecordingFinish
  \/ WorkletFrame
  \/ stopRecording
  \/ sendCancel
  \/ WsClose
  \/ OrphanOpen
  \/ OrphanClose
  \/ SrvRead
  \/ FinalTranscript(<<"h">>)
  \/ LlmTokenDone
  \/ TtsComplete

SpecCapture == Init /\ [][NextCapture]_vars

\* One utterance after another without a cancel or a close: a reply with
\* text and audio is under way when the next utterance starts.
NextRestart ==
  \/ Tick
  \/ StartRecordingCall
  \/ WsOpen
  \/ GumResolve
  \/ StartRecordingFinish
  \/ stopRecording
  \/ PlayerEnded
  \/ SrvRead
  \/ FinalTranscript(<<"h">>)
  \/ LlmToken(<<"a">>)
  \/ \E seq \in Seqs : TtsChunk(seq)
  \/ \E seq \in Seqs : TtsPhraseDone(seq)

SpecRestart == Init /\ [][NextRestart]_vars

\* The playback consumer with a player whose active item always ends: the
\* ended event is the player's answer to the item made active by playNext,
\* and it stays pending until the handler runs or a reset removes the
\* handler, hence weak fairness.  Replies without text, no cancel, no close.
NextPlaybackLive ==
  \/ StartRecordingCall
  \/ WsOpen
  \/ GumResolve
  \/ StartRecordingFinish
  \/ stopRecording
  \/ PlayerEnded
  \/ SrvRead
  \/ FinalTranscript(<<"h">>)
  \/ LlmTokenDone
  \/ \E seq \in Seqs : TtsChunk(seq)
  \/ \E seq \in Seqs : TtsPhraseDone(seq)
  \/ TtsComplete

SpecPlaybackLive ==
  Init /\ [][NextPlaybackLive]_vars /\ WF_vars(PlayerEnded)

\* ================================================================ claims
BytesOf(chunks) == [j \in 1..Len(chunks) |-> chunks[j].bytes]
DecodedOf(payloads) == [j \in 1..Len(payloads) |-> base64ToBytes(payloads[j])]
\* a phrase whose chunks all came before its done marker, since the last reset
WellFormed(s) == hRcvd[s].done /\ hRcvd[s].pre # << >> /\ ~hRcvd[s].post
\* the items not yet played, in playing order
Unplayed == current \o playbackQueue
\* a step of a handler that calls resetPlayback
ResetStep == StartRecordingFinish \/ sendCancel \/ WsClose \/ OrphanClose

\* C1: since the last reset, the phrases pushed on playbackQueue are phrases
\* 1, 2, ... in that order, each once; a phrase whose chunks all preceded its
\* done marker is pushed with exactly those chunks; once phrases 1..n have
\* chunks and are done, all n have been pushed; and the items still to play
\* are the last ones pushed, in the order pushed.
C1_PlaybackOrder ==
  /\ \A i \in 1..Len(hEmitted) :
       /\ hEmitted[i].seq = i
       /\ WellFormed(i) => BytesOf(hEmitted[i].chunks) = DecodedOf(hRcvd[i].pre)
  /\ \A n \in Seqs :
       (\A k \in 1..n : hRcvd[k].done /\ hRcvd[k].pre # << >>) => Len(hEmitted) >= n
  /\ Len(Unplayed) <= Len(hEmitted)
  /\ \A j \in 1..Len(Unplayed) :
       Unplayed[j].bytes =
         Blob(hEmitted[Len(hEmitted) - Len(Unplayed) + j].chunks).bytes

\* phrase 2 was done before phrase 1, and both have been pushed
C1_Witness ==
  /\ Len(hEmitted) = 2
  /\ WellFormed(1) /\ WellFormed(2)
  /\ hRcvd[2].rank < hRcvd[1].rank
  /\ Len(hRcvd[1].pre) = 2

\* C2 (as claimed): once the done markers of phrases 1..n have all arrived
\* since the last reset, with or without audio, the cursor is past n.
C2_NeverBlocked ==
  \A n \in Seqs : (\A k \in 1..n : hRcvd[k].done) => nextSeqToPlay > n

\* C3 (as claimed): no audio that arrived for a cancelled cycle is on
\* playbackQueue or is the playing item.
C3_NoLateAudio ==
  \A i \in 1..Len(Unplayed) : ~Unplayed[i].late

\* C4 (as claimed): no Assistant entry of the conversation holds text of a
\* cancelled cycle (fragments received before the cancel, or fragments or a
\* terminal marker that arrived late for it).
C4_NoLateCommit ==
  \A i \in 1..Len(conversation) :
    conversation[i].role = "Assistant" => ~conversation[i].late

\* C5 (as claimed): a call of startRecording that comes right after
\* sendCancel is not ignored: it goes on to send start.
C5_StartAfterCancel ==
  ~(hStart.afterCancel /\ hStart.result = "ignored")

\* the cursor is one more than the number of phrases released since the last
\* reset, the i-th of them being phrase i, done when it was released
C6_CursorInv ==
  /\ nextSeqToPlay = Len(hEmitted) + 1
  /\ \A i \in 1..Len(hEmitted) : hEmitted[i].seq = i /\ hEmitted[i].done

\* a step resets the cursor to 1, or moves it up by the number of phrases it
\* releases
C6_CursorStep ==
  \/ nextSeqToPlay' = 1
  \/ /\ nextSeqToPlay' >= nextSeqToPlay
     /\ nextSeqToPlay' - nextSeqToPlay = Len(hEmitted') - Len(hEmitted)

\* C6: the cursor is past a sequence number only if the phrase of that number
\* was done when the cursor passed it; the cursor moves up by exactly 1 per
\* released phrase and never goes down except by a reset to 1.
C6_Cursor == [](C6_CursorInv) /\ [][C6_CursorStep]_vars

\* the cursor has passed both phrases
C6_Witness ==
  nextSeqToPlay = 3 /\ hRcvd[1].done /\ hRcvd[2].done

\* a step that is not a reset leaves every done phrase above the cursor in
\* phraseBuffers, unchanged, unless the cursor passes it
C7_HeldStep ==
  \A s \in DOMAIN phraseBuffers :
    (s > nextSeqToPlay /\ phraseBuffers[s].done /\ ~ResetStep) =>
      \/ nextSeqToPlay' > s
      \/ s \in DOMAIN phraseBuffers' /\ phraseBuffers'[s] = phraseBuffers[s]

\* C7 (as claimed): a done phrase above the cursor stays in phraseBuffers with
\* its chunks unchanged until the cursor reaches it; no message handler
\* removes or alters it, only a reset discards it.
C7_HeldUnchanged == [][C7_HeldStep]_vars

\* C8: right after sendCancel the playback state is the initial one.
C8_CancelResets ==
  hOp.op = "sendCancel" =>
    /\ phraseBuffers = << >>
    /\ playbackQueue = << >>
    /\ nextSeqToPlay = 1
    /\ ~playing

\* sendCancel ran with a phrase held, an item playing and the cursor past 1
C8_Witness ==
  /\ hOp.op = "sendCancel"
  /\ hOp.held /\ hOp.playing
  /\ srv.ph[1].done /\ srv.ph[1].n > 0

\* C9 (as claimed): when tts_complete has set the status to Idle, the token
\* stream has ended and nothing is held, queued or playing.
C9_IdleWhenPlayed ==
  hOp.op = "tts_complete" =>
    /\ hTok.ended
    /\ phraseBuffers = << >>
    /\ playbackQueue = << >>
    /\ ~playing

\* pendingAssistant is the concatenation, in arrival order, of the fragments
\* received since the last start or terminal marker
C10_Pending == pendingAssistant = Concat(hTok.frags)

\* a step that adds an Assistant entry is the handling of a terminal marker,
\* and the entry's text is the concatenation of the fragments, trimmed
C10_CommitStep ==
  LET n == Len(conversation') IN
  (conversation' # conversation /\ conversation'[n].role = "Assistant") =>
    /\ LlmTokenDone
    /\ conversation'[n].text = trim(Concat(hTok.frags))

\* C10: an Assistant entry is added only when a terminal marker is handled,
\* and its text is the concatenation, in arrival order, of the fragments
\* received since the last start or terminal marker, trimmed: none dropped,
\* duplicated or reordered, and nothing committed before the marker.
C10_CommitOnDone == [](C10_Pending) /\ [][C10_CommitStep]_vars

\* a reply of two fragments has been committed, and one that was trimmed
C10_Witness ==
  /\ \E i \in 1..Len(conversation) :
       conversation[i].role = "Assistant" /\ conversation[i].text = <<"a", "b">>
  /\ \E i \in 1..Len(conversation) :
       conversation[i].role = "Assistant" /\ conversation[i].text = <<"b">>

\* ------------------------------------------------------------ the worklet
\* the block given to the latest call of process that had one
LastBlock == hWk.blocks[Len(hWk.blocks)]
\* buffer[0..writePos)
Buffered == SubSeq(wk[1].buffer, 1, wk[1].writePos)

\* C11: between calls, the number of frames posted times chunkSamples, plus
\* writePos, is the number of samples ever passed to enqueue.
C11_Conservation ==
  wk # << >> =>
    Len(hWk.posted) * wk[1].chunkSamples + wk[1].writePos = Len(hWk.enq)

\* the latest call posted two frames or more and left a remainder
C11_Witness ==
  /\ wk # << >>
  /\ Len(hWk.frames) >= 2
  /\ wk[1].writePos > 0
  /\ hWk.calls = MaxCalls

\* C12: the frames posted, in posting order, followed by buffer[0..writePos)
\* are the samples passed to enqueue, in call order: none lost, duplicated
\* or reordered.
C12_NoSampleLost ==
  wk # << >> => Concat(hWk.posted) \o Buffered = hWk.enq

\* a call has grown the buffer and posted several frames, and a later one
\* has left a remainder
C12_Witness ==
  /\ wk # << >>
  /\ Len(wk[1].buffer) > 4 * wk[1].chunkSamples
  /\ Len(hWk.posted) >= 3
  /\ wk[1].writePos > 0
  /\ \E i, j \in 1..Len(hWk.enq) : hWk.enq[i] # hWk.enq[j]

\* C13 (as claimed): interpolation is continuous across block boundaries:
\* when the blocks given so far end on output positions, the samples
\* resampled from them are the samples resampled from their concatenation.
C13_Continuous ==
  ( /\ wk # << >>
    /\ \A b \in 1..Len(hWk.blocks) :
         (Len(hWk.blocks[b]) * wk[1].targetSampleRate) % wk[1].inputSampleRate = 0 )
  => hWk.enq = Outputs(resample(wk[1], Concat(hWk.blocks)))

\* C14 (as claimed): output index i is interpolated at the source position
\* i * (targetSampleRate / inputSampleRate), i0 being its floor.
C14_PositionAsStated ==
  wk # << >> =>
    \A k \in 1..Len(hWk.trace) :
      /\ hWk.trace[k].i0 * wk[1].inputSampleRate <= (k - 1) * wk[1].targetSampleRate
      /\ (k - 1) * wk[1].targetSampleRate < (hWk.trace[k].i0 + 1) * wk[1].inputSampleRate

\* C14 (amended): output index i is interpolated at the source position
\* i * (inputSampleRate / targetSampleRate): i0 is its floor, i1 the next
\* index, capped at the last of the block, frac the fractional part, and the
\* output the interpolated value, clamped and scaled.
C14_SourcePosition ==
  wk # << >> =>
    \A k \in 1..Len(hWk.trace) :
      LET t == hWk.trace[k]
          in == wk[1].inputSampleRate
          tg == wk[1].targetSampleRate
          v0 == LastBlock[t.i0 + 1]
          v1 == LastBlock[t.i1 + 1]
          sample == v0 * tg + (v1 - v0) * t.f
      IN  /\ t.i0 * tg <= (k - 1) * in
          /\ (k - 1) * in < (t.i0 + 1) * tg
          /\ t.f = (k - 1) * in - t.i0 * tg
          /\ t.den = tg
          /\ t.i1 = Min(t.i0 + 1, Len(LastBlock) - 1)
          /\ t.out = Trunc(Max(-(Unit * tg), Min(Unit * tg, sample)) * Int16Max,
                           Unit * tg)

\* with different rates, an output that lies between two different samples,
\* and one that is clamped
C14_Witness ==
  /\ wk # << >>
  /\ wk[1].inputSampleRate # wk[1].targetSampleRate
  /\ \E k \in 1..Len(hWk.trace) :
       /\ hWk.trace[k].f > 0
       /\ hWk.trace[k].i1 = hWk.trace[k].i0 + 1
       /\ hWk.trace[k].out \notin {0, Int16Max, -Int16Max}
  /\ \E k \in 1..Len(hWk.trace) : hWk.trace[k].out = Int16Max

\* C15: resample returns floor(L * targetSampleRate / inputSampleRate)
\* samples for a block of L samples, none for an empty block.
C15_OutputLength ==
  (wk # << >> /\ hWk.blocks # << >>) =>
    LET n == Len(hWk.trace) IN
    /\ n * wk[1].inputSampleRate <= Len(LastBlock) * wk[1].targetSampleRate
    /\ Len(LastBlock) * wk[1].targetSampleRate < (n + 1) * wk[1].inputSampleRate
    /\ LastBlock = << >> => n = 0

\* L * ratio is no integer, and an empty block has been resampled before
C15_Witness ==
  /\ wk # << >>
  /\ Len(hWk.blocks) >= 2
  /\ hWk.blocks[1] = << >>
  /\ Len(hWk.trace) > 0
  /\ (Len(LastBlock) * wk[1].targetSampleRate) % wk[1].inputSampleRate # 0

\* ------------------------------------------------- close, player, metrics
\* C16 (as claimed): from the close of the channel until the next call of
\* startRecording the client is not recording, its capture resources are
\* released and its playback state is empty.
C16_ClosedReleased ==
  wsState = "closed" =>
    /\ ~recording
    /\ audio = NoAudio
    /\ phraseBuffers = << >>
    /\ playbackQueue = << >>
    /\ nextSeqToPlay = 1
    /\ ~playing

\* there is an active item exactly when playing, at most one, and the
\* consumer idles only on an empty queue
C17_OneActive ==
  /\ Len(current) <= 1
  /\ playing <=> current # << >>
  /\ ~playing => playbackQueue = << >>

\* a step that makes an item active starts from playing = false or is the
\* ended event of the active one, and takes the oldest item: the head of
\* playbackQueue, or on an empty queue the first item the step pushes
C17_TakeStep ==
  (current' # current /\ current' # << >>) =>
    /\ ~playing \/ PlayerEnded
    /\ current'[1] =
         IF playbackQueue # << >> THEN Head(playbackQueue)
         ELSE Blob(hEmitted'[Len(hEmitted) + 1].chunks)

\* C17: the playback consumer has at most one active item; playNext takes an
\* item only when playing is false; items become active in queue order; and
\* between handlers playing = false implies an empty playbackQueue.
C17_OneAtATime == [](C17_OneActive) /\ [][C17_TakeStep]_vars

\* an item is active and another one waits behind it
C17_Witness ==
  /\ playing
  /\ current # << >>
  /\ playbackQueue # << >>
  /\ current[1] # playbackQueue[1]

FirstKeys ==
  { "t1_first_partial", "t2_final_transcript", "t3_first_llm_token",
    "t4_first_tts_audio" }

\* the message whose handler stamps the key
FirstEvent(k) ==
  CASE k = "t1_first_partial" -> PartialTranscript
    [] k = "t2_final_transcript" -> FinalTranscript(<<"h">>)
    [] k = "t3_first_llm_token" -> LlmToken(<<"a">>)
    [] k = "t4_first_tts_audio" -> TtsChunk(1)

\* what a step does to metrics: stop, cancel and close nothing; the end of
\* startRecording replaces it by the utterance start; the clear action
\* empties it; any other change is a first event stamping its own, so far
\* unset, key with the current time, the other keys staying as they are
C18_MetricsStep ==
  /\ (stopRecording \/ sendCancel \/ WsClose) => metrics' = metrics
  /\ StartRecordingFinish =>
       DOMAIN metrics' = {"t0_user_audio_start"} /\ metrics'["t0_user_audio_start"] = now
  /\ clearMetrics => metrics' = << >>
  /\ \A k \in FirstKeys : FirstEvent(k) => k \in DOMAIN metrics'
  /\ (metrics' # metrics /\ ~StartRecordingFinish /\ ~clearMetrics) =>
       \E k \in FirstKeys :
         /\ FirstEvent(k)
         /\ k \notin DOMAIN metrics
         /\ DOMAIN metrics' = DOMAIN metrics \cup {k}
         /\ metrics'[k] = now
         /\ \A j \in DOMAIN metrics : metrics'[j] = metrics[j]

\* C18: a first-event timestamp is set by the first such event and not
\* overwritten by later ones; metrics is replaced only by startRecording and
\* emptied only by the clear action; stop, cancel and close leave it alone.
C18_MetricsFrame == [][C18_MetricsStep]_vars

\* all four first events are stamped, the first partial before the first
\* audio, in an utterance that started after time had passed
C18_Witness ==
  /\ DOMAIN metrics = FirstKeys \cup {"t0_user_audio_start"}
  /\ metrics["t0_user_audio_start"] = 1
  /\ metrics["t1_first_partial"] = 1
  /\ metrics["t4_first_tts_audio"] = MaxNow
  /\ hStarts = 2

\* C19: between handlers the entry of phraseBuffers at nextSeqToPlay is
\* absent or not done: the handler that completes the phrase at the cursor
\* moves the whole run of done phrases to playbackQueue.
C19_BurstDrained ==
  nextSeqToPlay \in DOMAIN phraseBuffers => ~phraseBuffers[nextSeqToPlay].done

\* phrase 2 was done first and held; the done marker of phrase 1 released both
C19_Witness ==
  /\ hRcvd[2].rank = 1 /\ hRcvd[1].rank = 2
  /\ Len(hEmitted) = 2
  /\ nextSeqToPlay = 3
  /\ phraseBuffers = << >>
  /\ Len(playbackQueue) = 1

\* C20 (as claimed): between two start messages the client sends there is
\* a stop or a close of the channel: no start follows a start directly.
C20_StartFromIdle ==
  \A i \in 1..(Len(c2s) - 1) : ~(c2s[i] = "start" /\ c2s[i + 1] = "start")

\* --------------------------------------------- the worklet, continued
\* the processor before the latest call of process with a block, and the
\* number of samples that call passed to enqueue
Before == hWk.before[1]
Appended == Len(hWk.trace)

\* C22 (as claimed): the samples handed to the framer over all calls are,
\* within one sample, floor(total input length * targetRate / nativeRate).
C22_NoDrift ==
  wk # << >> =>
    LET expected == (Len(Concat(hWk.blocks)) * wk[1].targetSampleRate)
                      \div wk[1].inputSampleRate
    IN  /\ Len(hWk.enq) >= expected - 1
        /\ Len(hWk.enq) <= expected + 1

\* C23: chunkSamples is floor(targetSampleRate * chunkMs / 1000), 5120 for
\* 16 kHz and 320 ms; every frame posted has chunkSamples samples; after a
\* call 0 <= writePos < chunkSamples; and a call that starts with w samples
\* and appends n posts floor((w + n) / chunkSamples) frames.
C23_FrameSize ==
  /\ ChunkSamples(SAMPLE_RATE, CHUNK_MS) = 5120
  /\ wk # << >> =>
       /\ \E cfg \in Configs :
            /\ cfg.sampleRate = wk[1].inputSampleRate
            /\ cfg.targetSampleRate = wk[1].targetSampleRate
            /\ wk[1].chunkSamples * 1000 <= cfg.targetSampleRate * cfg.chunkMs
            /\ cfg.targetSampleRate * cfg.chunkMs < (wk[1].chunkSamples + 1) * 1000
       /\ \A i \in 1..Len(hWk.posted) : Len(hWk.posted[i]) = wk[1].chunkSamples
       /\ 0 <= wk[1].writePos /\ wk[1].writePos < wk[1].chunkSamples
       /\ hWk.before # << >> =>
            LET total == Before.writePos + Appended
                frames == Len(hWk.frames)
            IN  /\ frames * wk[1].chunkSamples <= total
                /\ total < (frames + 1) * wk[1].chunkSamples

\* a call that started with a remainder has posted several frames
C23_Witness ==
  /\ wk # << >> /\ hWk.before # << >>
  /\ Before.writePos > 0
  /\ Len(hWk.frames) >= 2
  /\ wk[1].chunkSamples >= 2

\* C27: ensureCapacity, whenever writePos + additional exceeds the capacity,
\* gives a buffer of at least twice the capacity and at least writePos +
\* additional, with buffer[0..writePos) unchanged, and leaves the processor
\* alone otherwise; the capacity never shrinks, 0 <= writePos <= capacity,
\* and the samples of a call fit into the buffer.
C27_GrowthSafe ==
  wk # << >> =>
    /\ 0 <= wk[1].writePos /\ wk[1].writePos <= Len(wk[1].buffer)
    /\ hWk.before # << >> =>
         /\ Len(wk[1].buffer) >= Len(Before.buffer)
         /\ Before.writePos + Appended <= Len(wk[1].buffer)
         /\ Before.writePos + Appended > Len(Before.buffer) =>
              Len(wk[1].buffer) >= 2 * Len(Before.buffer)
    /\ \A additional \in 0..(Len(wk[1].buffer) + 1) :
         LET q == ensureCapacity(wk[1], additional)
             old == Len(wk[1].buffer)
         IN  /\ q.writePos = wk[1].writePos
             /\ SubSeq(q.buffer, 1, q.writePos) = Buffered
             /\ Len(q.buffer) >= old
             /\ Len(q.buffer) >= wk[1].writePos + additional
             /\ wk[1].writePos + additional > old => Len(q.buffer) >= 2 * old
             /\ wk[1].writePos + additional <= old => q = wk[1]

\* the latest call has grown a buffer that held samples
C27_Witness ==
  /\ wk # << >> /\ hWk.before # << >>
  /\ Before.writePos > 0
  /\ Len(wk[1].buffer) > Len(Before.buffer)

\* C28: for every output index of resample the two interpolation indices
\* satisfy 0 <= i0 <= i1 <= L - 1: no read outside the block.
C28_ReadsInBlock ==
  wk # << >> =>
    \A k \in 1..Len(hWk.trace) :
      /\ 0 <= hWk.trace[k].i0
      /\ hWk.trace[k].i0 <= hWk.trace[k].i1
      /\ hWk.trace[k].i1 <= Len(LastBlock) - 1

\* an output whose position lies beyond the last sample of the block
C28_Witness ==
  /\ wk # << >>
  /\ \E k \in 1..Len(hWk.trace) :
       /\ hWk.trace[k].i0 = Len(LastBlock) - 1
       /\ hWk.trace[k].i1 = hWk.trace[k].i0
       /\ hWk.trace[k].f > 0
  /\ Len(LastBlock) = MaxBlock

\* C29: with chunkSamples >= 1 the loop of enqueue ends: it runs at most
\* w + n times, once per frame posted, and lowers writePos by chunkSamples
\* each time, down to a value that is not negative.
C29_LoopEnds ==
  (wk # << >> /\ hWk.before # << >>) =>
    /\ wk[1].chunkSamples >= 1
    /\ Len(hWk.frames) <= Before.writePos + Appended
    /\ wk[1].writePos =
         Before.writePos + Appended - Len(hWk.frames) * wk[1].chunkSamples
    /\ wk[1].writePos >= 0

\* the loop has run five times or more in one call
C29_Witness ==
  /\ wk # << >>
  /\ Len(hWk.frames) >= 5
  /\ hWk.calls >= 2

\* --------------------------------------------------- the capture path
\* C21 (as claimed, for the messages still in the channel): a binary frame
\* follows a start or another frame, never a stop or a cancel.
C21_FramesWhileCapturing ==
  \A i \in 2..Len(c2s) :
    c2s[i] = "audio" => c2s[i - 1] \in {"start", "audio"}

\* ------------------------------------------------- the start of a cycle
Fresh ==
  /\ nextSeqToPlay = 1
  /\ phraseBuffers = << >>
  /\ playbackQueue = << >>
  /\ ~playing
  /\ current = << >>
  /\ pendingAssistant = << >>
  /\ DOMAIN metrics = {"t0_user_audio_start"}
  /\ metrics["t0_user_audio_start"] = now

StartSent == c2s' = Append(c2s, "start")

C24_FreshStep == StartSent => Fresh'

\* C24: at the moment a start message is sent nextSeqToPlay = 1,
\* phraseBuffers and playbackQueue are empty, playing is false,
\* pendingAssistant is empty and metrics holds only the utterance-start
\* timestamp.
C24_FreshAtStart == [][C24_FreshStep]_vars

\* the second start has just been sent while the reply to the first
\* utterance is under way: text, a finished phrase and a held chunk
C24_Witness ==
  /\ hStarts = 2
  /\ c2s = << "start" >>
  /\ srv.state = "Responding"
  /\ srv.frags > 0
  /\ srv.ph[1].done /\ srv.ph[1].n > 0
  /\ srv.ph[2].n > 0 /\ ~srv.ph[2].done
  /\ recording
  /\ Fresh

\* ------------------------------------------------- playback liveness
\* the k-th item placed on playbackQueue since the last reset
Placed(k) == Len(hEmitted) >= k
\* that item has left the queue: it is, or has been, the active item
Activated(k) == Len(hEmitted) >= k /\ Len(hEmitted) - Len(playbackQueue) >= k
\* a reset has dropped it
Dropped(k) == Len(hEmitted) < k

\* C25: with an active item that always ends, every item placed on
\* playbackQueue becomes the active item unless a reset drops it, and
\* playing becomes false once the queue is empty and the last item has
\* ended.
C25_PlaybackLive ==
  /\ \A k \in Seqs : Placed(k) ~> (Activated(k) \/ Dropped(k))
  /\ playing ~> (~playing /\ playbackQueue = << >> /\ current = << >>)

\* the second item placed on the queue is the active one
C25_Witness ==
  /\ Len(hEmitted) = 2
  /\ playing
  /\ current = << Blob(hEmitted[2].chunks) >>
  /\ playbackQueue = << >>

\* ------------------------------------------- every chunk is played
\* C26 (as claimed): each item pushed on playbackQueue for a phrase consists
\* of exactly the chunks received for the phrase since the last reset, in
\* arrival order, and phraseBuffers holds no entry under a sequence number
\* below the cursor.
C26_ChunksPlayed ==
  /\ \A i \in 1..Len(hEmitted) :
       /\ BytesOf(hEmitted[i].chunks) = DecodedOf(hRcvd[hEmitted[i].seq].pre)
       /\ ~hRcvd[hEmitted[i].seq].post
  /\ \A s \in DOMAIN phraseBuffers : s >= nextSeqToPlay

====
